---- MODULE Spec2Model ----
(***************************************************************************)
(* AlphaPackTokenizer (src/alphapack_tokenizer.py): one tokenizer instance *)
(* of one Python process, the vocabulary snapshot file it saves and loads, *)
(* and the calls a client makes on it.                                     *)
(*                                                                         *)
(* A call leaves its record in last (the arguments, what it returned,      *)
(* whether it raised); the client takes it (Return) before its next call.  *)
(* twin is a second tokenizer, in a second Python process; callers are the *)
(* threads of the process that call encode on the one instance at a time.  *)
(*                                                                         *)
(* A Python str is a sequence of one-character strings; a dict is a        *)
(* function whose DOMAIN is its key set.  Line 45 of the source (the       *)
(* punctuation literal) ends its string early, at the quote after the      *)
(* backslash; the model reads the literal as it is meant, with the quote   *)
(* escaped.                                                                *)
(***************************************************************************)
EXTENDS Integers, Sequences, FiniteSets, TLC

VARIABLES vocab_size, word_to_id, id_to_word, next_id, hashOf, file, saved, last,
          twin, callers

vars == <<vocab_size, word_to_id, id_to_word, next_id, hashOf, file, saved, last,
          twin, callers>>

(***************************************************************************)
(* Bounds of the model.                                                    *)
(***************************************************************************)
\* longest text handed to encode
MaxTextLen == 2
\* largest max_length handed to encode
MaxLength == 3
\* longest ID sequence handed to decode
MaxIds == 3
\* longest text handed to _tokenize alone
MaxSegLen == 3

\* characters of the texts
Chars == {"A", ",", " "}
\* vocab_size values given at construction
VocabSizes == {3, 5, 7}
\* IDs handed to decode
DecodeIds == {0, 1, 5}

RECURSIVE SeqsUpTo(_, _)
SeqsUpTo(S, n) ==
    IF n = 0 THEN {<<>>}
    ELSE LET shorter == SeqsUpTo(S, n - 1)
         IN shorter \cup {Append(s, x) : s \in shorter, x \in S}

Texts == SeqsUpTo(Chars, MaxTextLen)
\* characters of the texts handed to _tokenize alone
SegChars == {"A", "b", ",", ".", " ", "\t"}
SegTexts == SeqsUpTo(SegChars, MaxSegLen)
Lengths == 0..MaxLength
\* the str hashes of a process: one of each residue of the moduli that line 81
\* takes for the vocab_size values above (2 and -2)
HashVals == {-1, 0}
IdSeqs == SeqsUpTo(DecodeIds, MaxIds)
\* IDs handed to decode when it skips special tokens
SkipIds == {0, 1, 5, 6}

(***************************************************************************)
(* Python built-ins the code uses.                                         *)
(***************************************************************************)
\* dict[k] = v
Put(d, k, v) == [x \in (DOMAIN d) \cup {k} |-> IF x = k THEN v ELSE d[x]]

\* a remainder with the sign of a, as C and Java compute it
PyMod_Truncated(a, b) ==
    LET m == (IF a < 0 THEN 0 - a ELSE a) % (IF b < 0 THEN 0 - b ELSE b)
    IN IF a < 0 THEN 0 - m ELSE m

\* a % b of Python for b # 0: the result has the sign of b
PyMod(a, b) == IF b > 0 THEN a % b ELSE 0 - ((0 - a) % (0 - b))

\* str.lower(), on the characters of the texts
LowerChar(c) == IF c = "A" THEN "a" ELSE c
Lower(text) == [i \in 1..Len(text) |-> LowerChar(text[i])]

\* str.strip(): leading and trailing whitespace removed
Whitespace == {" ", "\t", "\n", "\r"}
RECURSIVE LStrip(_)
LStrip(text) ==
    IF text # <<>> /\ Head(text) \in Whitespace THEN LStrip(Tail(text)) ELSE text
RECURSIVE RStrip(_)
RStrip(text) ==
    IF text # <<>> /\ text[Len(text)] \in Whitespace
    THEN RStrip(SubSeq(text, 1, Len(text) - 1))
    ELSE text
Strip(text) == RStrip(LStrip(text))

\* str(n) of an int: its decimal digits, with a sign when negative
DigitChars == <<"0", "1", "2", "3", "4", "5", "6", "7", "8", "9">>
RECURSIVE StrNat(_)
StrNat(n) ==
    IF n < 10 THEN <<DigitChars[n + 1]>>
    ELSE StrNat(n \div 10) \o <<DigitChars[(n % 10) + 1]>>
Str(n) == IF n < 0 THEN <<"-">> \o StrNat(0 - n) ELSE StrNat(n)

\* int(s) of a str: an optional sign and decimal digits; anything else is a
\* ValueError
DigitSet == {DigitChars[i] : i \in 1..10}
DigitVal(c) == (CHOOSE i \in 1..10 : DigitChars[i] = c) - 1
IsDigits(s) == s # <<>> /\ \A i \in 1..Len(s) : s[i] \in DigitSet
IsIntLiteral(s) ==
    IF s # <<>> /\ Head(s) \in {"-", "+"} THEN IsDigits(Tail(s)) ELSE IsDigits(s)
RECURSIVE NatOf(_)
NatOf(s) ==
    IF s = <<>> THEN 0
    ELSE 10 * NatOf(SubSeq(s, 1, Len(s) - 1)) + DigitVal(s[Len(s)])
Int_(s) ==
    IF Head(s) = "-" THEN 0 - NatOf(Tail(s))
    ELSE IF Head(s) = "+" THEN NatOf(Tail(s))
    ELSE NatOf(s)

(***************************************************************************)
(* __init__                                                                *)
(***************************************************************************)
PAD == <<"<", "P", "A", "D", ">">>
EOS == <<"<", "E", "O", "S", ">">>
UNK == <<"<", "U", "N", "K", ">">>
SEP == <<"<", "S", "E", "P", ">">>
BOS == <<"<", "B", "O", "S", ">">>

special_tokens == (PAD :> 0) @@ (EOS :> 1) @@ (UNK :> 2) @@ (SEP :> 3) @@ (BOS :> 4)

pad_token_id == 0
eos_token_id == 1

\* the backquote is written "backquote": a TLA+ string cannot hold it
noktalar ==
    {".", ",", "!", "?", ";", ":", "@", "#", "$", "%", "&", "*", "+", "-", "=",
     "/", "(", ")", "[", "]", "{", "}", "\"", "'", "backquote", "~", "<", ">", "|",
     "\\", "^"}

\* the instance a constructor call without a vocabulary to load leaves
Fresh(vs) ==
    [vocab_size |-> vs,
     word_to_id |-> special_tokens,
     id_to_word |-> [i \in {special_tokens[w] : w \in DOMAIN special_tokens} |->
                        CHOOSE w \in DOMAIN special_tokens : special_tokens[w] = i],
     next_id    |-> Cardinality(DOMAIN special_tokens)]

\* the instance the variables hold
Self ==
    [vocab_size |-> vocab_size, word_to_id |-> word_to_id,
     id_to_word |-> id_to_word, next_id |-> next_id]

(***************************************************************************)
(* _tokenize                                                               *)
(***************************************************************************)
\* the flush without the test of current
Flush_Always(tokens, current) == Append(tokens, current)

\* if current: tokens.append(current)
Flush(tokens, current) == IF current # <<>> THEN Append(tokens, current) ELSE tokens

RECURSIVE TokenizeFrom(_, _, _, _)
TokenizeFrom(text, i, tokens, current) ==
    IF i > Len(text) THEN Flush(tokens, current)
    ELSE LET c == text[i]
         IN IF c = " " THEN TokenizeFrom(text, i + 1, Flush(tokens, current), <<>>)
            ELSE IF c \in noktalar
            THEN TokenizeFrom(text, i + 1, Append(Flush(tokens, current), <<c>>), <<>>)
            ELSE TokenizeFrom(text, i + 1, tokens, Append(current, c))

_tokenize(text) == TokenizeFrom(Strip(Lower(text)), 1, <<>>, <<>>)

(***************************************************************************)
(* _word_to_id.  h is the str hash of the process: Python draws it anew    *)
(* for every process (hash randomization), and it is one function of the   *)
(* word while the process runs.  The result is the instance after the      *)
(* call, the ID returned and whether the call raised (ZeroDivisionError).  *)
(***************************************************************************)
\* the hash-fallback ID of line 81
FallbackId(self, word, h) ==
    PyMod(h[word], self.vocab_size - Cardinality(DOMAIN special_tokens))
        + Cardinality(DOMAIN special_tokens)

\* lines 83-84 without the write to id_to_word
Assign_NoReverse(self, word, token_id) ==
    [self EXCEPT !.word_to_id = Put(self.word_to_id, word, token_id)]

\* lines 83-84
Assign(self, word, token_id) ==
    [self EXCEPT !.word_to_id = Put(self.word_to_id, word, token_id),
                 !.id_to_word = Put(self.id_to_word, token_id, word)]

\* _word_to_id without the lookup of lines 72-73
_word_to_id_NoLookup(self, word, h) ==
    IF self.next_id < self.vocab_size
    THEN [self |-> Assign([self EXCEPT !.next_id = self.next_id + 1], word,
                          self.next_id),
          token_id |-> self.next_id, raised |-> FALSE]
    ELSE IF self.vocab_size - Cardinality(DOMAIN special_tokens) = 0
    THEN [self |-> self, token_id |-> 0, raised |-> TRUE]
    ELSE [self |-> Assign(self, word, FallbackId(self, word, h)),
          token_id |-> FallbackId(self, word, h), raised |-> FALSE]

\* _word_to_id without the increment of line 78
_word_to_id_NoIncrement(self, word, h) ==
    IF word \in DOMAIN self.word_to_id
    THEN [self |-> self, token_id |-> self.word_to_id[word], raised |-> FALSE]
    ELSE IF self.next_id < self.vocab_size
    THEN [self |-> Assign(self, word, self.next_id),
          token_id |-> self.next_id, raised |-> FALSE]
    ELSE IF self.vocab_size - Cardinality(DOMAIN special_tokens) = 0
    THEN [self |-> self, token_id |-> 0, raised |-> TRUE]
    ELSE [self |-> Assign(self, word, FallbackId(self, word, h)),
          token_id |-> FallbackId(self, word, h), raised |-> FALSE]

_word_to_id(self, word, h) ==
    IF word \in DOMAIN self.word_to_id
    THEN [self |-> self, token_id |-> self.word_to_id[word], raised |-> FALSE]
    ELSE IF self.next_id < self.vocab_size
    THEN [self |-> Assign([self EXCEPT !.next_id = self.next_id + 1], word,
                          self.next_id),
          token_id |-> self.next_id, raised |-> FALSE]
    ELSE IF self.vocab_size - Cardinality(DOMAIN special_tokens) = 0
    THEN [self |-> self, token_id |-> 0, raised |-> TRUE]
    ELSE [self |-> Assign(self, word, FallbackId(self, word, h)),
          token_id |-> FallbackId(self, word, h), raised |-> FALSE]

(***************************************************************************)
(* encode                                                                  *)
(***************************************************************************)
\* line 101: the list comprehension, word by word; it stops at a raise
RECURSIVE WordsToIds(_, _, _, _, _)
WordsToIds(self, words, i, ids, h) ==
    IF i > Len(words)
    THEN [self |-> self, ids |-> ids, raised |-> FALSE]
    ELSE LET r == _word_to_id(self, words[i], h)
         IN IF r.raised
            THEN [self |-> r.self, ids |-> ids, raised |-> TRUE]
            ELSE WordsToIds(r.self, words, i + 1, Append(ids, r.token_id), h)

\* lines 102-107 without the truncation of lines 104-105
PadOrTruncate_NoCut(ids, max_length, padding) ==
    LET all == Append(ids, eos_token_id)
    IN IF padding /\ Len(all) <= max_length
       THEN all \o [i \in 1..(max_length - Len(all)) |-> pad_token_id]
       ELSE all

\* lines 102-107 with the end marker appended after the padding
PadOrTruncate_EosLast(ids, max_length, padding) ==
    IF Len(ids) + 1 > max_length THEN SubSeq(Append(ids, eos_token_id), 1, max_length)
    ELSE IF padding
    THEN Append(ids \o [i \in 1..(max_length - Len(ids) - 1) |-> pad_token_id],
                eos_token_id)
    ELSE Append(ids, eos_token_id)

\* lines 102-107 with a truncation that keeps the end marker
PadOrTruncate_KeepEos(ids, max_length, padding) ==
    LET all == Append(ids, eos_token_id)
    IN IF Len(all) > max_length
       THEN IF max_length = 0 THEN <<>>
            ELSE Append(SubSeq(ids, 1, max_length - 1), eos_token_id)
       ELSE IF padding
       THEN all \o [i \in 1..(max_length - Len(all)) |-> pad_token_id]
       ELSE all

\* lines 102-107
PadOrTruncate(ids, max_length, padding) ==
    LET all == Append(ids, eos_token_id)
    IN IF Len(all) > max_length THEN SubSeq(all, 1, max_length)
       ELSE IF padding
       THEN all \o [i \in 1..(max_length - Len(all)) |-> pad_token_id]
       ELSE all

\* encode that cuts the words to max_length before it looks them up
encode_CutFirst(self, text, max_length, padding, h) ==
    LET words == _tokenize(text)
        r == WordsToIds(self, SubSeq(words, 1, IF Len(words) > max_length
                                               THEN max_length ELSE Len(words)),
                        1, <<>>, h)
    IN [self |-> r.self, raised |-> r.raised,
        input_ids |-> IF r.raised THEN <<>>
                      ELSE PadOrTruncate(r.ids, max_length, padding)]

encode(self, text, max_length, padding, h) ==
    LET r == WordsToIds(self, _tokenize(text), 1, <<>>, h)
    IN [self |-> r.self, raised |-> r.raised,
        input_ids |-> IF r.raised THEN <<>>
                      ELSE PadOrTruncate(r.ids, max_length, padding)]

(***************************************************************************)
(* decode                                                                  *)
(***************************************************************************)
\* lines 138-139.  The argument is a flat list of IDs (arg.ids), or, when
\* arg.nested, a list whose one element is the list of IDs arg.first
Unwrap(arg) == IF arg.nested THEN arg.first ELSE arg.ids

\* f"[{tid}]"
Placeholder(tid) == <<"[">> \o Str(tid) \o <<"]">>

\* lines 141-148 with the end marker skipped instead of ending the loop
RECURSIVE DecodeWords_SkipEos(_, _, _, _)
DecodeWords_SkipEos(self, ids, i, skip_special_tokens) ==
    IF i > Len(ids) THEN <<>>
    ELSE IF ids[i] = eos_token_id \/ (skip_special_tokens /\ ids[i] \in {0, 2, 3, 4})
    THEN DecodeWords_SkipEos(self, ids, i + 1, skip_special_tokens)
    ELSE <<IF ids[i] \in DOMAIN self.id_to_word THEN self.id_to_word[ids[i]]
           ELSE Placeholder(ids[i])>>
         \o DecodeWords_SkipEos(self, ids, i + 1, skip_special_tokens)

\* lines 141-148 without the special-token filter of lines 145-146
RECURSIVE DecodeWords_NoFilter(_, _, _, _)
DecodeWords_NoFilter(self, ids, i, skip_special_tokens) ==
    IF i > Len(ids) THEN <<>>
    ELSE IF ids[i] = eos_token_id THEN <<>>
    ELSE <<IF ids[i] \in DOMAIN self.id_to_word THEN self.id_to_word[ids[i]]
           ELSE Placeholder(ids[i])>>
         \o DecodeWords_NoFilter(self, ids, i + 1, skip_special_tokens)

\* lines 141-148: the loop from position i on
RECURSIVE DecodeWords(_, _, _, _)
DecodeWords(self, ids, i, skip_special_tokens) ==
    IF i > Len(ids) THEN <<>>
    ELSE IF ids[i] = eos_token_id THEN <<>>
    ELSE IF skip_special_tokens /\ ids[i] \in {0, 2, 3, 4}
    THEN DecodeWords(self, ids, i + 1, skip_special_tokens)
    ELSE <<IF ids[i] \in DOMAIN self.id_to_word THEN self.id_to_word[ids[i]]
           ELSE Placeholder(ids[i])>>
         \o DecodeWords(self, ids, i + 1, skip_special_tokens)

\* ''.join(words): the separator forgotten
RECURSIVE Join_NoSpace(_)
Join_NoSpace(words) ==
    IF words = <<>> THEN <<>> ELSE words[1] \o Join_NoSpace(Tail(words))

\* ' '.join(words)
RECURSIVE Join(_)
Join(words) ==
    IF words = <<>> THEN <<>>
    ELSE IF Len(words) = 1 THEN words[1]
    ELSE words[1] \o <<" ">> \o Join(Tail(words))

decode(self, arg, skip_special_tokens) ==
    Join(DecodeWords(self, Unwrap(arg), 1, skip_special_tokens))

(***************************************************************************)
(* save_vocab and load_vocab.  A file is absent (kind "none"), holds text  *)
(* that is no JSON ("garbage"), or holds a JSON object ("json": data maps  *)
(* its field names to their values).                                       *)
(***************************************************************************)
NoFile == [kind |-> "none", data |-> <<>>]

\* line 156
StrKeys(d) == [k \in {Str(i) : i \in DOMAIN d} |-> d[CHOOSE i \in DOMAIN d : Str(i) = k]]

\* line 169
IntKeys(d) == [i \in {Int_(k) : k \in DOMAIN d} |-> d[CHOOSE k \in DOMAIN d : Int_(k) = i]]

\* dict.get(key, default)
Get(d, key, default) == IF key \in DOMAIN d THEN d[key] ELSE default

save_vocab(self) ==
    [kind |-> "json",
     data |-> [word_to_id |-> self.word_to_id,
               id_to_word |-> StrKeys(self.id_to_word),
               vocab_size |-> self.vocab_size,
               next_id    |-> self.next_id]]

\* load_vocab with next_id counted from the loaded map, whatever the snapshot
\* says
load_vocab_CountedNextId(self, f) ==
    IF f.kind # "json" THEN [self |-> self, raised |-> TRUE]
    ELSE IF "word_to_id" \notin DOMAIN f.data THEN [self |-> self, raised |-> TRUE]
    ELSE LET s1 == [self EXCEPT !.word_to_id = f.data.word_to_id]
         IN IF "id_to_word" \notin DOMAIN f.data
            THEN [self |-> s1, raised |-> TRUE]
            ELSE IF \E k \in DOMAIN f.data.id_to_word : ~IsIntLiteral(k)
            THEN [self |-> s1, raised |-> TRUE]
            ELSE [self |-> [s1 EXCEPT
                      !.id_to_word = IntKeys(f.data.id_to_word),
                      !.vocab_size = Get(f.data, "vocab_size",
                                         Cardinality(DOMAIN s1.word_to_id)),
                      !.next_id = Cardinality(DOMAIN s1.word_to_id)],
                  raised |-> FALSE]

\* load_vocab with the defaults of lines 170-171 counted from id_to_word
load_vocab_DefaultsFromIds(self, f) ==
    IF f.kind # "json" THEN [self |-> self, raised |-> TRUE]
    ELSE IF "word_to_id" \notin DOMAIN f.data THEN [self |-> self, raised |-> TRUE]
    ELSE LET s1 == [self EXCEPT !.word_to_id = f.data.word_to_id]
         IN IF "id_to_word" \notin DOMAIN f.data
            THEN [self |-> s1, raised |-> TRUE]
            ELSE IF \E k \in DOMAIN f.data.id_to_word : ~IsIntLiteral(k)
            THEN [self |-> s1, raised |-> TRUE]
            ELSE [self |-> [s1 EXCEPT
                      !.id_to_word = IntKeys(f.data.id_to_word),
                      !.vocab_size = Get(f.data, "vocab_size",
                                         Cardinality(DOMAIN f.data.id_to_word)),
                      !.next_id = Get(f.data, "next_id",
                                      Cardinality(DOMAIN f.data.id_to_word))],
                  raised |-> FALSE]

\* the instance after the call, and whether the call raised
load_vocab(self, f) ==
    IF f.kind # "json" THEN [self |-> self, raised |-> TRUE]
    ELSE IF "word_to_id" \notin DOMAIN f.data THEN [self |-> self, raised |-> TRUE]
    ELSE LET s1 == [self EXCEPT !.word_to_id = f.data.word_to_id]
         IN IF "id_to_word" \notin DOMAIN f.data
            THEN [self |-> s1, raised |-> TRUE]
            ELSE IF \E k \in DOMAIN f.data.id_to_word : ~IsIntLiteral(k)
            THEN [self |-> s1, raised |-> TRUE]
            ELSE [self |-> [s1 EXCEPT
                      !.id_to_word = IntKeys(f.data.id_to_word),
                      !.vocab_size = Get(f.data, "vocab_size",
                                         Cardinality(DOMAIN s1.word_to_id)),
                      !.next_id = Get(f.data, "next_id",
                                      Cardinality(DOMAIN s1.word_to_id))],
                  raised |-> FALSE]

(***************************************************************************)
(* The state machine.                                                      *)
(***************************************************************************)
\* the four fields of an instance, as the persistence claims compare them
Fields(self) == <<self.word_to_id, self.id_to_word, self.vocab_size, self.next_id>>

SetSelf(self) ==
    /\ vocab_size' = self.vocab_size
    /\ word_to_id' = self.word_to_id
    /\ id_to_word' = self.id_to_word
    /\ next_id' = self.next_id

Range(s) == {s[i] : i \in 1..Len(s)}

\* the words a text can hold
Words == UNION {Range(_tokenize(t)) : t \in Texts}

\* no second tokenizer in another process
NoTwin == [started |-> FALSE]

\* no callers in threads of their own
NoCallers == <<>>

\* no call is under way
Idle == last.op = "idle"

Init ==
    /\ \E vs \in VocabSizes : /\ vocab_size = vs
                              /\ word_to_id = Fresh(vs).word_to_id
                              /\ id_to_word = Fresh(vs).id_to_word
                              /\ next_id = Fresh(vs).next_id
    /\ hashOf \in [Words -> HashVals]
    /\ file = NoFile
    /\ saved = <<>>
    /\ last = [op |-> "__init__", raised |-> FALSE, loaded |-> FALSE,
               given |-> vocab_size]
    /\ twin = NoTwin
    /\ callers = NoCallers

\* AlphaPackTokenizer(vocab_size=vs, vocab_path=...) in the running process;
\* when load_vocab raises, so does the constructor, and the client keeps the
\* instance it had
Construct(vs, with_path) ==
    LET r == IF with_path /\ file.kind # "none" THEN load_vocab(Fresh(vs), file)
             ELSE [self |-> Fresh(vs), raised |-> FALSE]
    IN /\ Idle
       /\ IF r.raised THEN UNCHANGED <<vocab_size, word_to_id, id_to_word, next_id>>
          ELSE SetSelf(r.self)
       /\ last' = [op |-> "__init__", raised |-> r.raised,
                   loaded |-> with_path /\ file.kind # "none", given |-> vs]
       /\ UNCHANGED <<hashOf, file, saved, twin, callers>>

\* the process ends and a new one constructs its tokenizer: str hashes are
\* drawn anew
NewProcess(vs) ==
    /\ Idle
    /\ SetSelf(Fresh(vs))
    /\ hashOf' \in [Words -> HashVals]
    /\ last' = [op |-> "__init__", raised |-> FALSE, loaded |-> FALSE, given |-> vs]
    /\ UNCHANGED <<file, saved, twin, callers>>

\* a direct call of _word_to_id
WordToId(word) ==
    LET r == _word_to_id(Self, word, hashOf)
    IN /\ Idle
       /\ SetSelf(r.self)
       /\ last' = [op |-> "_word_to_id", word |-> word, token_id |-> r.token_id,
                   raised |-> r.raised,
                   known |-> word \in DOMAIN word_to_id,
                   sequential |-> word \notin DOMAIN word_to_id
                                  /\ next_id < vocab_size]
       /\ UNCHANGED <<hashOf, file, saved, twin, callers>>

Encode(text, max_length, padding) ==
    LET r == encode(Self, text, max_length, padding, hashOf)
    IN /\ Idle
       /\ SetSelf(r.self)
       /\ last' = [op |-> "encode", text |-> text, max_length |-> max_length,
                   padding |-> padding, raised |-> r.raised,
                   input_ids |-> r.input_ids]
       /\ UNCHANGED <<hashOf, file, saved, twin, callers>>

Decode(arg, skip_special_tokens) ==
    /\ Idle
    /\ last' = [op |-> "decode", arg |-> arg,
                skip_special_tokens |-> skip_special_tokens,
                text |-> decode(Self, arg, skip_special_tokens)]
    /\ UNCHANGED <<vocab_size, word_to_id, id_to_word, next_id, hashOf, file, saved, twin, callers>>

SaveVocab ==
    /\ Idle
    /\ file' = save_vocab(Self)
    /\ saved' = Fields(Self)
    /\ last' = [op |-> "save_vocab", raised |-> FALSE]
    /\ UNCHANGED <<vocab_size, word_to_id, id_to_word, next_id, hashOf, twin, callers>>

LoadVocab ==
    LET r == load_vocab(Self, file)
    IN /\ Idle
       /\ SetSelf(r.self)
       /\ last' = [op |-> "load_vocab", raised |-> r.raised]
       /\ UNCHANGED <<hashOf, file, saved, twin, callers>>

\* the client takes what the call returned or raised
Return ==
    /\ ~Idle
    /\ last.op # "encode in threads"
    /\ last' = [op |-> "idle"]
    /\ UNCHANGED <<vocab_size, word_to_id, id_to_word, next_id, hashOf, file, saved, twin, callers>>

DecodeArgs ==
    {[nested |-> FALSE, ids |-> ids, first |-> <<>>] : ids \in IdSeqs}
        \cup {[nested |-> TRUE, ids |-> <<>>, first |-> ids] : ids \in IdSeqs}

\* a client that constructs tokenizers and encodes texts
Next ==
    \/ \E vs \in VocabSizes : Construct(vs, FALSE)
    \/ \E vs \in VocabSizes : NewProcess(vs)
    \/ \E word \in Words : WordToId(word)
    \/ \E text \in Texts, max_length \in Lengths, padding \in BOOLEAN :
          Encode(text, max_length, padding)
    \/ Return

Spec == Init /\ [][Next]_vars

\* a client that builds a vocabulary and decodes ID sequences
NextDecode ==
    \/ \E text \in Texts : Encode(text, MaxLength, TRUE)
    \/ \E arg \in DecodeArgs, skip_special_tokens \in BOOLEAN :
          Decode(arg, skip_special_tokens)
    \/ Return

SpecDecode == Init /\ [][NextDecode]_vars

\* a client that builds a vocabulary and decodes flat ID sequences with
\* skip_special_tokens=True
NextSkip ==
    \/ \E text \in Texts : Encode(text, MaxLength, TRUE)
    \/ \E ids \in SeqsUpTo(SkipIds, MaxIds) :
          Decode([nested |-> FALSE, ids |-> ids, first |-> <<>>], TRUE)
    \/ Return

SpecSkip == Init /\ [][NextSkip]_vars

\* the edits of a snapshot file made outside the tokenizer
\* edits that leave a file load_vocab cannot load
BreakingEdits == {"delete", "garbage", "no word_to_id", "no id_to_word", "bad key"}
\* edits that leave a snapshot without its optional fields
LegacyEdits == {"no vocab_size", "no next_id", "no vocab_size, no next_id"}

\* a snapshot as save_vocab writes it: the four fields, decimal keys
Unedited(f) ==
    /\ f.kind = "json"
    /\ DOMAIN f.data = {"word_to_id", "id_to_word", "vocab_size", "next_id"}
    /\ \A k \in DOMAIN f.data.id_to_word : IsIntLiteral(k)

DropField(f, name) == [f EXCEPT !.data = [k \in (DOMAIN f.data) \ {name} |-> f.data[k]]]

\* one edit of a snapshot that save_vocab wrote
EditFile(edit) ==
    /\ Idle
    /\ Unedited(file)
    /\ file' = IF edit = "delete" THEN NoFile
               ELSE IF edit = "garbage" THEN [kind |-> "garbage", data |-> <<>>]
               ELSE IF edit = "no word_to_id" THEN DropField(file, "word_to_id")
               ELSE IF edit = "no id_to_word" THEN DropField(file, "id_to_word")
               ELSE IF edit = "no vocab_size" THEN DropField(file, "vocab_size")
               ELSE IF edit = "no next_id" THEN DropField(file, "next_id")
               ELSE IF edit = "no vocab_size, no next_id"
               THEN DropField(DropField(file, "vocab_size"), "next_id")
               ELSE [file EXCEPT !.data.id_to_word = Put(@, <<"x">>, <<"x">>)]
    /\ last' = [op |-> "edit"]
    /\ UNCHANGED <<vocab_size, word_to_id, id_to_word, next_id, hashOf, saved, twin, callers>>

\* a client that constructs its tokenizers with a vocab_path, builds the
\* vocabularies, saves them and loads them
NextPersist ==
    \/ \E vs \in VocabSizes : Construct(vs, TRUE)
    \/ \E word \in Words : WordToId(word)
    \/ \E text \in Texts : Encode(text, MaxLength, TRUE)
    \/ SaveVocab
    \/ LoadVocab
    \/ Return

SpecPersist == Init /\ [][NextPersist]_vars

\* a client that builds a vocabulary, saves it and loads it, with snapshot
\* files that are damaged by hand
NextEdit ==
    \/ \E word \in Words : WordToId(word)
    \/ SaveVocab
    \/ LoadVocab
    \/ \E edit \in BreakingEdits : EditFile(edit)
    \/ Return

SpecEdit == Init /\ [][NextEdit]_vars

\* the same client, with snapshot files whose optional fields are removed
NextLegacy ==
    \/ \E word \in Words : WordToId(word)
    \/ SaveVocab
    \/ LoadVocab
    \/ \E edit \in LegacyEdits : EditFile(edit)
    \/ Return

SpecLegacy == Init /\ [][NextLegacy]_vars

\* a second Python process constructs a tokenizer with the vocab_size of the
\* first one, which has served no call yet; the process has str hashes of its
\* own
StartTwin ==
    /\ Idle
    /\ ~twin.started
    /\ Self = Fresh(vocab_size)
    /\ \E h \in [Words -> HashVals] :
          twin' = [started |-> TRUE, self |-> Fresh(vocab_size), hashOf |-> h]
    /\ last' = [op |-> "__init__ in both"]
    /\ UNCHANGED <<vocab_size, word_to_id, id_to_word, next_id, hashOf, file, saved,
                   callers>>

\* the same encode call on the tokenizer of either process
EncodeBoth(text, max_length, padding) ==
    LET r == encode(Self, text, max_length, padding, hashOf)
        q == encode(twin.self, text, max_length, padding, twin.hashOf)
    IN /\ Idle
       /\ twin.started
       /\ SetSelf(r.self)
       /\ twin' = [twin EXCEPT !.self = q.self]
       /\ last' = [op |-> "encode in both", text |-> text,
                   max_length |-> max_length, padding |-> padding,
                   raised |-> r.raised, input_ids |-> r.input_ids,
                   twin_raised |-> q.raised, twin_input_ids |-> q.input_ids]
       /\ UNCHANGED <<hashOf, file, saved, callers>>

\* two processes that construct a tokenizer each and make the same encode calls
NextTwin ==
    \/ StartTwin
    \/ \E text \in Texts, max_length \in Lengths, padding \in BOOLEAN :
          EncodeBoth(text, max_length, padding)
    \/ Return

SpecTwin == Init /\ [][NextTwin]_vars

(***************************************************************************)
(* encode called by two threads on the one instance.  The code takes no    *)
(* lock: a thread switch can fall between any two statements of a caller,  *)
(* and between the read and the write of the += of line 78.  A caller is   *)
(* its program counter (the line it is to run next) and its locals.        *)
(***************************************************************************)
\* line 100 of a caller: _tokenize works on locals only
Caller(text, max_length, padding) ==
    LET words == _tokenize(text)
    IN [pc |-> IF words = <<>> THEN "102" ELSE "72",
        words |-> words, i |-> 1, ids |-> <<>>, token_id |-> 0, tmp |-> 0,
        max_length |-> max_length, padding |-> padding,
        sequential |-> <<>>]

\* two threads call encode
Fork(text1, text2, max_length, padding) ==
    /\ Idle
    /\ callers = NoCallers
    /\ callers' = <<Caller(text1, max_length, padding),
                    Caller(text2, max_length, padding)>>
    /\ last' = [op |-> "encode in threads", next_id |-> next_id]
    /\ UNCHANGED <<vocab_size, word_to_id, id_to_word, next_id, hashOf, file, saved,
                   twin>>

\* the caller is at the line
At(t, line) == t \in DOMAIN callers /\ callers[t].pc = line

\* _word_to_id returns token_id to the comprehension of line 101, which goes on
\* to the next word
Returned(c, token_id) ==
    [c EXCEPT !.ids = Append(c.ids, token_id),
              !.i = c.i + 1,
              !.pc = IF c.i + 1 > Len(c.words) THEN "102" ELSE "72"]

\* lines 72-73
Line72(t) ==
    LET c == callers[t]
    IN /\ At(t, "72")
       /\ callers' = [callers EXCEPT ![t] =
             IF c.words[c.i] \in DOMAIN word_to_id
             THEN Returned(c, word_to_id[c.words[c.i]])
             ELSE [c EXCEPT !.pc = "76"]]
       /\ UNCHANGED <<vocab_size, word_to_id, id_to_word, next_id, hashOf, file,
                      saved, last, twin>>

\* line 76
Line76(t) ==
    /\ At(t, "76")
    /\ callers' = [callers EXCEPT ![t].pc =
                      IF next_id < vocab_size THEN "77" ELSE "81"]
    /\ UNCHANGED <<vocab_size, word_to_id, id_to_word, next_id, hashOf, file, saved,
                   last, twin>>

\* line 77
Line77(t) ==
    LET c == callers[t]
    IN /\ At(t, "77")
       /\ callers' = [callers EXCEPT ![t] =
             [c EXCEPT !.token_id = next_id,
                       !.sequential = Append(c.sequential, <<c.words[c.i], next_id>>),
                       !.pc = "78"]]
       /\ UNCHANGED <<vocab_size, word_to_id, id_to_word, next_id, hashOf, file,
                      saved, last, twin>>

\* line 78: the read of self.next_id
Line78Load(t) ==
    /\ At(t, "78")
    /\ callers' = [callers EXCEPT ![t].tmp = next_id, ![t].pc = "78 store"]
    /\ UNCHANGED <<vocab_size, word_to_id, id_to_word, next_id, hashOf, file, saved,
                   last, twin>>

\* line 78: the write of self.next_id
Line78Store(t) ==
    /\ At(t, "78 store")
    /\ next_id' = callers[t].tmp + 1
    /\ callers' = [callers EXCEPT ![t].pc = "83"]
    /\ UNCHANGED <<vocab_size, word_to_id, id_to_word, hashOf, file, saved, last,
                   twin>>

\* line 81: the ZeroDivisionError ends the caller's encode
Line81(t) ==
    LET c == callers[t]
    IN /\ At(t, "81")
       /\ callers' = [callers EXCEPT ![t] =
             IF vocab_size - Cardinality(DOMAIN special_tokens) = 0
             THEN [c EXCEPT !.pc = "raised"]
             ELSE [c EXCEPT !.token_id = FallbackId(Self, c.words[c.i], hashOf),
                            !.pc = "83"]]
       /\ UNCHANGED <<vocab_size, word_to_id, id_to_word, next_id, hashOf, file,
                      saved, last, twin>>

\* line 83
Line83(t) ==
    LET c == callers[t]
    IN /\ At(t, "83")
       /\ word_to_id' = Put(word_to_id, c.words[c.i], c.token_id)
       /\ callers' = [callers EXCEPT ![t].pc = "84"]
       /\ UNCHANGED <<vocab_size, id_to_word, next_id, hashOf, file, saved, last,
                      twin>>

\* lines 84-85
Line84(t) ==
    LET c == callers[t]
    IN /\ At(t, "84")
       /\ id_to_word' = Put(id_to_word, c.token_id, c.words[c.i])
       /\ callers' = [callers EXCEPT ![t] = Returned(c, c.token_id)]
       /\ UNCHANGED <<vocab_size, word_to_id, next_id, hashOf, file, saved, last,
                      twin>>

\* lines 102-116
Line102(t) ==
    LET c == callers[t]
    IN /\ At(t, "102")
       /\ callers' = [callers EXCEPT ![t] =
             [c EXCEPT !.ids = PadOrTruncate(c.ids, c.max_length, c.padding),
                       !.pc = "done"]]
       /\ UNCHANGED <<vocab_size, word_to_id, id_to_word, next_id, hashOf, file,
                      saved, last, twin>>

\* both calls have returned or raised
JoinCallers ==
    /\ last.op = "encode in threads"
    /\ \A t \in DOMAIN callers : callers[t].pc \in {"done", "raised"}
    /\ last' = [op |-> "joined", next_id |-> last.next_id]
    /\ UNCHANGED <<vocab_size, word_to_id, id_to_word, next_id, hashOf, file, saved,
                   twin, callers>>

\* one process whose two threads encode a text each on the one tokenizer
NextThreads ==
    \/ \E text1, text2 \in Texts : Fork(text1, text2, MaxLength, TRUE)
    \/ \E t \in 1..2 :
          \/ Line72(t)
          \/ Line76(t)
          \/ Line77(t)
          \/ Line78Load(t)
          \/ Line78Store(t)
          \/ Line81(t)
          \/ Line83(t)
          \/ Line84(t)
          \/ Line102(t)
    \/ JoinCallers
    \/ Return

SpecThreads == Init /\ [][NextThreads]_vars

\* a direct call of _tokenize
Tokenize(text) ==
    /\ Idle
    /\ last' = [op |-> "_tokenize", text |-> text, tokens |-> _tokenize(text)]
    /\ UNCHANGED <<vocab_size, word_to_id, id_to_word, next_id, hashOf, file, saved,
                   twin, callers>>

\* a client that segments texts
NextSegment ==
    \/ \E text \in SegTexts : Tokenize(text)
    \/ Return

SpecSegment == Init /\ [][NextSegment]_vars

\* the client hands the input_ids that encode has just returned to decode
DecodeEncoded(skip_special_tokens) ==
    LET arg == [nested |-> FALSE, ids |-> last.input_ids, first |-> <<>>]
    IN /\ last.op = "encode" /\ ~last.raised
       /\ last' = [op |-> "decode", arg |-> arg,
                   skip_special_tokens |-> skip_special_tokens,
                   text |-> decode(Self, arg, skip_special_tokens),
                   encoded |-> last]
       /\ UNCHANGED <<vocab_size, word_to_id, id_to_word, next_id, hashOf, file,
                      saved, twin, callers>>

\* a client that encodes texts and decodes what encode returned
NextRoundTrip ==
    \/ \E text \in Texts, max_length \in Lengths, padding \in BOOLEAN :
          Encode(text, max_length, padding)
    \/ \E skip_special_tokens \in BOOLEAN : DecodeEncoded(skip_special_tokens)
    \/ Return

SpecRoundTrip == Init /\ [][NextRoundTrip]_vars

(***************************************************************************)
(* The claims.                                                             *)
(***************************************************************************)
\* an encode call has returned
Encoded == last.op = "encode" /\ ~last.raised

\* the IDs the vocabulary holds for the words of a token sequence
IdsOf(words) == [i \in 1..Len(words) |-> word_to_id[words[i]]]

\* n times the PAD ID
Pads(n) == [i \in 1..n |-> pad_token_id]

Ids == {word_to_id[w] : w \in DOMAIN word_to_id}

\* two words of the vocabulary share an ID
Collided == \E v, w \in DOMAIN word_to_id : v # w /\ word_to_id[v] = word_to_id[w]

\* C4: a _word_to_id call for a word that is a key of word_to_id returns the ID
\* the word has and leaves word_to_id, id_to_word, next_id and vocab_size as they
\* are; an encode or _word_to_id call removes no key of word_to_id and changes
\* the ID of none.
C4_LookupStable ==
    [][/\ last'.op = "_word_to_id" /\ last'.word \in DOMAIN word_to_id
          => /\ ~last'.raised
             /\ last'.token_id = word_to_id[last'.word]
             /\ UNCHANGED <<word_to_id, id_to_word, next_id, vocab_size>>
       /\ last'.op \in {"encode", "_word_to_id"}
          => \A w \in DOMAIN word_to_id :
                w \in DOMAIN word_to_id' /\ word_to_id'[w] = word_to_id[w]]_vars

\* C4 witness: _word_to_id has looked up a word it knew, in a vocabulary that
\* holds more words than vocab_size (capacity exhausted, fallback used).
C4_Witness ==
    /\ last.op = "_word_to_id" /\ last.known
    /\ Cardinality(DOMAIN word_to_id) > vocab_size
    /\ vocab_size > Cardinality(DOMAIN special_tokens)

\* C5: a _word_to_id call for a word that is no key of word_to_id, made while
\* next_id < vocab_size, returns the current next_id, advances next_id by
\* exactly 1, and the ID is greater than every ID the vocabulary held and is
\* held by the new word alone.
C5_SequentialFresh ==
    [][last'.op = "_word_to_id" /\ last'.word \notin DOMAIN word_to_id
         /\ next_id < vocab_size
       => /\ ~last'.raised
          /\ last'.token_id = next_id
          /\ next_id' = next_id + 1
          /\ \A i \in Ids \cup DOMAIN id_to_word : i < last'.token_id
          /\ \A w \in DOMAIN word_to_id' :
                word_to_id'[w] = last'.token_id <=> w = last'.word
          /\ id_to_word'[last'.token_id] = last'.word]_vars

\* C5 witness: a word got the sequential ID 6 in a vocabulary whose snapshot
\* is on file.
C5_Witness ==
    /\ last.op = "_word_to_id" /\ last.sequential
    /\ last.token_id = 6
    /\ file.kind = "json"

\* C6: after save_vocab, a load_vocab of the file, by a call on any instance or
\* by a constructor given any vocab_size, leaves word_to_id, id_to_word (integer
\* keys), vocab_size and next_id equal to those of the instance that saved.
C6_RoundTrip ==
    /\ last.op = "load_vocab" \/ (last.op = "__init__" /\ last.loaded)
    /\ ~last.raised
    => Fields(Self) = saved

\* C6 witness: a constructor given another vocab_size has loaded the snapshot of
\* a vocabulary in which two words share an ID.
C6_Witness ==
    /\ last.op = "__init__" /\ last.loaded /\ ~last.raised
    /\ last.given # vocab_size
    /\ Collided

\* C7 (as claimed): a load_vocab call that raises leaves word_to_id, id_to_word,
\* vocab_size and next_id as they were before the call.
C7_FailedLoadKeepsState ==
    [][last'.op = "load_vocab" /\ last'.raised
       => UNCHANGED <<word_to_id, id_to_word, vocab_size, next_id>>]_vars

\* C8 (as claimed): no _word_to_id call and no encode call raises, whatever the
\* vocab_size given at construction.
C8_NeverRaises ==
    last.op \in {"_word_to_id", "encode"} => ~last.raised

\* C9 (as claimed): the five special tokens keep their IDs in both maps, and no
\* other word of the vocabulary has an ID in 0..4.
C9_SpecialsReserved ==
    /\ \A w \in DOMAIN special_tokens :
          /\ w \in DOMAIN word_to_id
          /\ word_to_id[w] = special_tokens[w]
          /\ special_tokens[w] \in DOMAIN id_to_word
          /\ id_to_word[special_tokens[w]] = w
    /\ \A w \in (DOMAIN word_to_id) \ DOMAIN special_tokens : word_to_id[w] \notin 0..4

\* the IDs before the first EOS
RECURSIVE BeforeEos(_)
BeforeEos(ids) ==
    IF ids = <<>> THEN <<>>
    ELSE IF Head(ids) = eos_token_id THEN <<>>
    ELSE <<Head(ids)>> \o BeforeEos(Tail(ids))

\* C10: decode returns what it returns for the IDs strictly before the first EOS:
\* the first EOS and every ID after it add nothing, with either value of
\* skip_special_tokens.
C10_StopsAtEos ==
    last.op = "decode"
    => last.text = decode(Self, [nested |-> FALSE, first |-> <<>>,
                                 ids |-> BeforeEos(Unwrap(last.arg))],
                          last.skip_special_tokens)

\* C10 witness: decode was handed a word's ID, then EOS, then the ID of a word
\* of the vocabulary.
C10_Witness ==
    /\ last.op = "decode" /\ ~last.arg.nested
    /\ Len(last.arg.ids) = 3
    /\ last.arg.ids[2] = eos_token_id
    /\ last.arg.ids[1] \in DOMAIN id_to_word /\ last.arg.ids[1] > 4
    /\ last.arg.ids[3] \in DOMAIN id_to_word /\ last.arg.ids[3] > 4

\* the IDs of a sequence that are no PAD, UNK, SEP or BOS
Unfiltered(ids) == SelectSeq(ids, LAMBDA tid : tid \notin {0, 2, 3, 4})

\* the word decode gives for an ID: its id_to_word entry, or the placeholder
WordOf(tid) == IF tid \in DOMAIN id_to_word THEN id_to_word[tid] ELSE Placeholder(tid)

\* C11: decode of a flat sequence of IDs with skip_special_tokens=True returns
\* (never raises) the single-space join, in order, of one word per ID that
\* comes before the first EOS and is not 0, 2, 3 or 4: id_to_word[id] when the
\* ID is a key of id_to_word, the placeholder "[id]" otherwise.
C11_SkipSpecialJoin ==
    last.op = "decode" /\ ~last.arg.nested /\ last.skip_special_tokens
    => LET kept == Unfiltered(BeforeEos(last.arg.ids))
       IN last.text = Join([j \in 1..Len(kept) |-> WordOf(kept[j])])

\* C11 witness: decode, skipping special tokens, was handed PAD, the ID of a
\* word of the vocabulary and an ID that id_to_word does not hold, and returned
\* the word and the placeholder.
C11_Witness ==
    /\ last.op = "decode" /\ ~last.arg.nested /\ last.skip_special_tokens
    /\ \E i, j, k \in 1..Len(last.arg.ids) :
          /\ i < j /\ j < k
          /\ last.arg.ids[i] = pad_token_id
          /\ last.arg.ids[j] \in DOMAIN id_to_word /\ last.arg.ids[j] > 4
          /\ last.arg.ids[k] \notin DOMAIN id_to_word
    /\ Len(last.text) > 3

\* looking up the words from position i on takes the hash-fallback path of line
\* 81 for one of them
RECURSIVE Hashes(_, _, _, _)
Hashes(self, words, i, h) ==
    IF i > Len(words) THEN FALSE
    ELSE \/ words[i] \notin DOMAIN self.word_to_id /\ ~(self.next_id < self.vocab_size)
         \/ Hashes(_word_to_id(self, words[i], h).self, words, i + 1, h)

\* the call recorded in last' takes the hash-fallback path
HashesNow ==
    \/ last'.op = "encode" /\ Hashes(Self, _tokenize(last'.text), 1, hashOf)
    \/ last'.op = "_word_to_id" /\ Hashes(Self, <<last'.word>>, 1, hashOf)

\* word_to_id and id_to_word are exact inverses and the IDs are 0..next_id-1
InverseDense(self) ==
    /\ \A w \in DOMAIN self.word_to_id :
          /\ self.word_to_id[w] \in DOMAIN self.id_to_word
          /\ self.id_to_word[self.word_to_id[w]] = w
    /\ \A i \in DOMAIN self.id_to_word :
          /\ self.id_to_word[i] \in DOMAIN self.word_to_id
          /\ self.word_to_id[self.id_to_word[i]] = i
    /\ DOMAIN self.id_to_word = 0..(self.next_id - 1)
    /\ Cardinality(DOMAIN self.word_to_id) = self.next_id

\* C12: a freshly constructed tokenizer has word_to_id and id_to_word exact
\* inverses and the IDs exactly 0..next_id-1, without gap or duplicate, and an
\* encode (or _word_to_id) call that assigns no ID on the hash-fallback path
\* keeps it so: it holds in every state reached from construction by calls
\* without fallback.
C12_InverseDense ==
    /\ InverseDense(Self)
    /\ [][/\ last'.op = "__init__" => InverseDense(Self')
          /\ InverseDense(Self) /\ last'.op \in {"encode", "_word_to_id"}
                /\ ~HashesNow
             => InverseDense(Self')]_vars

\* C12 witness: encode has assigned the last sequential ID, 6, to the second
\* word of a text, in a tokenizer with vocab_size 7 whose maps are inverses.
C12_Witness ==
    /\ Encoded /\ Len(_tokenize(last.text)) = 2
    /\ vocab_size = 7 /\ next_id = 7
    /\ InverseDense(Self)
    /\ Len(last.input_ids) >= 2 /\ last.input_ids[2] = 6

\* C13 (as claimed): a _word_to_id call for a word that is no key of word_to_id,
\* made when next_id >= vocab_size, inserts the word with its hash-derived ID
\* and no occupancy check: id_to_word[ID] becomes the new word, every earlier
\* word keeps its ID in word_to_id, len(word_to_id) grows by 1 and is past
\* vocab_size, and decode of the ID (skip_special_tokens at its default) gives
\* the new word.
C13_FallbackOverwrites ==
    [][last'.op = "_word_to_id" /\ last'.word \notin DOMAIN word_to_id
         /\ next_id >= vocab_size
       => /\ ~last'.raised
          /\ last'.word \in DOMAIN word_to_id'
          /\ word_to_id'[last'.word] = last'.token_id
          /\ last'.token_id = FallbackId(Self, last'.word, hashOf)
          /\ id_to_word'[last'.token_id] = last'.word
          /\ \A w \in DOMAIN word_to_id : word_to_id'[w] = word_to_id[w]
          /\ Cardinality(DOMAIN word_to_id') = Cardinality(DOMAIN word_to_id) + 1
          /\ Cardinality(DOMAIN word_to_id') > vocab_size
          /\ decode(Self', [nested |-> FALSE, first |-> <<>>,
                            ids |-> <<last'.token_id>>], TRUE) = last'.word]_vars

\* C14 (as claimed): two tokenizers constructed with the same vocab_size in two
\* processes and driven by the same encode calls return the same IDs for every
\* call, also for the words that get their ID on the hash-fallback path.
C14_SameIdsInEveryProcess ==
    last.op = "encode in both"
    => /\ last.twin_raised = last.raised
       /\ last.twin_input_ids = last.input_ids

\* the words and the IDs that the callers took on the sequential path
TakenSequentially ==
    UNION {Range(callers[t].sequential) : t \in DOMAIN callers}

\* C15 (as claimed): when two callers run encode at the same time on one
\* tokenizer, their _word_to_id steps are serialized, so that two distinct new
\* words never get the same sequential ID and next_id has advanced once per
\* new word when both calls are over.
C15_CallersSerialized ==
    /\ \A a, b \in TakenSequentially : a[1] # b[1] => a[2] # b[2]
    /\ last.op = "joined"
       => next_id = last.next_id + Cardinality({a[1] : a \in TakenSequentially})

\* the file is a snapshot that save_vocab wrote, less vocab_size, next_id or both
Legacy(f) ==
    /\ f.kind = "json"
    /\ {"word_to_id", "id_to_word"} \subseteq DOMAIN f.data
    /\ \A k \in DOMAIN f.data.id_to_word : IsIntLiteral(k)
    /\ {"vocab_size", "next_id"} \ DOMAIN f.data # {}

\* C16: load_vocab of a well-formed snapshot without its vocab_size field, its
\* next_id field or both succeeds; a missing field becomes the number of
\* entries of the loaded word_to_id, a field that is there is restored as
\* stored, and id_to_word has its integer keys again.
C16_LegacyDefaults ==
    last.op = "load_vocab" /\ Legacy(file)
    => /\ ~last.raised
       /\ word_to_id = saved[1]
       /\ id_to_word = saved[2] /\ DOMAIN id_to_word \subseteq Int
       /\ vocab_size = IF "vocab_size" \in DOMAIN file.data THEN saved[3]
                       ELSE Cardinality(DOMAIN saved[1])
       /\ next_id = IF "next_id" \in DOMAIN file.data THEN saved[4]
                    ELSE Cardinality(DOMAIN saved[1])

\* C16 witness: load_vocab has loaded a snapshot without vocab_size and next_id
\* whose word_to_id holds two words with one ID, into an instance that held
\* another vocabulary; vocab_size is no longer the one that was saved.
C16_Witness ==
    /\ last.op = "load_vocab" /\ Legacy(file)
    /\ DOMAIN file.data = {"word_to_id", "id_to_word"}
    /\ Collided
    /\ vocab_size # saved[3]

\* the tokens written one after the other
RECURSIVE Concat(_)
Concat(tokens) == IF tokens = <<>> THEN <<>> ELSE Head(tokens) \o Concat(Tail(tokens))

\* C17: _tokenize returns tokens none of which is empty or holds the space
\* character; a token that holds a character of the punctuation set is that one
\* character; the tokens written one after the other are the lowercased,
\* stripped text without its space characters; the empty text gives no token.
C17_SegmentsText ==
    last.op = "_tokenize"
    => /\ \A i \in 1..Len(last.tokens) :
             /\ last.tokens[i] # <<>>
             /\ " " \notin Range(last.tokens[i])
             /\ Range(last.tokens[i]) \cap noktalar # {} => Len(last.tokens[i]) = 1
       /\ Concat(last.tokens)
             = SelectSeq(Strip(Lower(last.text)), LAMBDA c : c # " ")
       /\ last.text = <<>> => last.tokens = <<>>

\* C17 witness: a text with a capital, a space and a punctuation mark after it
\* was cut into the lowercased word and the mark.
C17_Witness ==
    /\ last.op = "_tokenize"
    /\ last.text = <<"A", " ", ",">>
    /\ last.tokens = << <<"a">>, <<",">> >>

\* C18: in a tokenizer constructed with vocab_size >= 6 and driven by encode
\* calls, every ID that encode returns, every ID of word_to_id and every key of
\* id_to_word lies in 0..vocab_size-1, an ID given on the hash-fallback path
\* lies in 5..vocab_size-1, and id_to_word never holds more than vocab_size
\* entries, however many word_to_id holds.
C18_IdsWithinCapacity ==
    vocab_size >= 6
    => /\ DOMAIN id_to_word \subseteq 0..(vocab_size - 1)
       /\ Ids \subseteq 0..(vocab_size - 1)
       /\ Cardinality(DOMAIN id_to_word) <= vocab_size
       /\ Encoded => Range(last.input_ids) \subseteq 0..(vocab_size - 1)
       /\ last.op = "_word_to_id" /\ ~last.known /\ ~last.sequential
          => last.token_id \in 5..(vocab_size - 1)

\* C18 witness: encode has returned in a tokenizer with vocab_size 7 whose
\* word_to_id holds 8 words and whose id_to_word holds 7.
C18_Witness ==
    /\ Encoded /\ vocab_size = 7
    /\ Cardinality(DOMAIN word_to_id) = 8
    /\ Cardinality(DOMAIN id_to_word) = 7
    /\ \E i \in 1..Len(last.input_ids) : last.input_ids[i] > 4

\* C19: the vocabulary that an encode call leaves does not depend on max_length
\* or padding: whatever the two are, the call leaves word_to_id, id_to_word,
\* vocab_size and next_id as the call with max_length 0 and no padding, which
\* cuts every token off, would have left them from the same state; so any two
\* calls with the same text from the same state leave the same vocabulary.
C19_VocabularyWhateverLength ==
    [][last'.op = "encode"
       => LET other == encode(Self, last'.text, 0, FALSE, hashOf)
          IN /\ other.raised = last'.raised
             /\ Fields(other.self) = Fields(Self')]_vars

\* C19 witness: encode with max_length 1 of a two-token text has returned the
\* ID of the first token alone, and the second token, new with this call, is in
\* the vocabulary.
C19_Witness ==
    /\ Encoded /\ last.max_length = 1
    /\ Len(_tokenize(last.text)) = 2
    /\ _tokenize(last.text)[2] \in DOMAIN word_to_id
    /\ word_to_id[_tokenize(last.text)[2]] \notin Range(last.input_ids)

\* the words with one space between each two
Spaced(words) ==
    IF words = <<>> THEN <<>>
    ELSE Head(words) \o Concat([i \in 1..(Len(words) - 1) |-> <<" ">> \o words[i + 1]])

\* C20: in a tokenizer reached from construction by encode calls that assigned
\* no ID on the hash-fallback path (the maps are inverses over 0..next_id-1),
\* decode of what encode returned for a text of k tokens with max_length >= k+1,
\* with or without padding, is the tokens of the text with one space between
\* each two.
C20_DecodeOfEncode ==
    /\ last.op = "decode" /\ "encoded" \in DOMAIN last
    /\ InverseDense(Self)
    /\ last.encoded.max_length >= Len(_tokenize(last.encoded.text)) + 1
    => last.text = Spaced(_tokenize(last.encoded.text))

\* C20 witness: decode was handed the padded IDs of a two-token text, both
\* tokens new with that encode call, and gave the two tokens back.
C20_Witness ==
    /\ last.op = "decode" /\ "encoded" \in DOMAIN last
    /\ InverseDense(Self)
    /\ last.encoded.padding /\ last.encoded.max_length = 3
    /\ last.encoded.text = <<"A", ",">>
    /\ next_id = 7
    /\ last.text = <<"a", " ", ",">>

====
